---- MODULE Spec2Model ----
(***************************************************************************)
(* Document ingestion orchestrator and case-scoped retrieval of Lawbric.    *)
(*                                                                          *)
(* Modelled from backend/app/api/v1/documents.py (upload_document,          *)
(* process_document_background, reprocess_document, delete_document),       *)
(* backend/app/services/vector_store.py,                                    *)
(* backend/app/services/rag_service.py, backend/app/api/v1/queries.py,      *)
(* backend/app/services/document_processor.py and                           *)
(* backend/app/services/embedding_service.py.                               *)
(*                                                                          *)
(* Specifications: Spec (ingestion runs, reprocess, delete, query),         *)
(* QuerySpec (create_query over a populated index), IntakeSpec (one file    *)
(* by declared type), ChunkSpec (chunk_text), PdfSpec (one PDF from         *)
(* extraction to chunks), EmbedSpec (one EmbeddingService and its           *)
(* collection), ReprocessSpec (reprocess of a processed document).          *)
(*                                                                          *)
(* Modelling decisions:                                                     *)
(*  - every database commit, vector-store call, extraction and embedding    *)
(*    call is one step that either returns or raises;                       *)
(*  - primary keys of documents and chunk rows are fresh (never reused);    *)
(*  - a file's content is abstracted to the number of chunks chunk_text     *)
(*    yields for it; the text of an exception to its length;                *)
(*  - the "agent log" debug regions are logging only and are not modelled   *)
(*    (the one at documents.py:70-77 reads the name `threading`, which the  *)
(*    module never imports at top level).                                   *)
(***************************************************************************)
EXTENDS Integers, Sequences, FiniteSets, TLC

\* ---------------------------------------------------------------- bounds
MaxDocs == 2
MaxRuns == 2
MaxChunks == 1
MaxTopK == 2
MaxEntries == 3
MaxQueries == 1
MaxUnits == 2
MaxLen == 7
MaxSize == 4
MaxPages == 2
MaxCalls == 3

\* ------------------------------------------------------ program constants
\* error_msg[:1000]
ErrMsgMax == 1000

\* content[:200]
QUOTE_MAX == 200

\* create_query: top_k=10
TOP_K == 10

\* max(1, word_count // 500)
WORDS_PER_PAGE == 500

\* settings.CHUNK_SIZE, settings.CHUNK_OVERLAP
CHUNK_SIZE == 1000
CHUNK_OVERLAP == 200

\* settings.VECTOR_DB_TYPE: str = "chroma"
VECTOR_DB_TYPE == "chroma"

\* settings.CASE_ISOLATION_ENABLED: bool = True
CASE_ISOLATION_ENABLED == TRUE

CaseIds == {1, 2}
DocIds == 1..MaxDocs
RunIds == 1..MaxRuns

\* lengths of the exception texts str(e) the model draws from
ErrLens == {1, ErrMsgMax + 1}

VARIABLES
    documents,    \* documents table: id -> row
    nextDocId,    \* next primary key of documents
    chunks,       \* document_chunks table: set of rows
    nextChunkId,  \* next primary key of document_chunks
    vectors,      \* the vector-store collection: set of entries
    runs,         \* process_document_background invocations: id -> frame
    uploading,    \* documents whose upload_document call has not returned
    lastResult,   \* the dict RAGService.query has just returned; NoResult
                  \* once any other step has run
    queries,      \* queries table: the Query rows create_query has committed
    file,         \* intake of one file: the uploaded file and its declared type
    row,          \* intake of one file: its Document row, <<>> before it exists
    stage,        \* intake of one file: where its upload and ingestion stand
    chunk_call,   \* the arguments of a chunk_text call
    chunk_ret,    \* the list chunk_text returned, <<>> before it returns
    before,       \* the chunk rows a document had when its latest reprocess
                  \* request arrived (recorded by ReprocessSpec only)
    pdf,          \* extraction of one PDF: its pages as the loader reads them
    processed,    \* extraction of one PDF: the dict process_document returned
    page_map,     \* extraction of one PDF: the page_mapping the run has built
    embedder,     \* an EmbeddingService instance
    embeddings,   \* the vectors its latest embed_texts call returned
    collection    \* the vector-store collection the vectors are written to

\* what the orchestrator's steps and RAGService.query leave alone
auxVars == <<queries, file, row, stage, chunk_call, chunk_ret, before,
             pdf, processed, page_map, embedder, embeddings, collection>>

vars == <<documents, nextDocId, chunks, nextChunkId, vectors,
          runs, uploading, lastResult, queries,
          file, row, stage, chunk_call, chunk_ret, before,
          pdf, processed, page_map, embedder, embeddings, collection>>

\* ---------------------------------------------------------------- helpers
Min(a, b) == IF a < b THEN a ELSE b

\* VectorStore.__init__: self.store_type
store_type == VECTOR_DB_TYPE

\* f"chunk_{id}"
EmbeddingId(id) == <<"chunk", id>>

\* embedding_id / error_message = None
None == <<>>

NoResult == [kind |-> "none"]

Exists(d) == d \in DOMAIN documents

ChunksOf(d) == {c \in chunks : c.document_id = d}

VectorsOf(d) == {v \in vectors : v.metadata.document_id = d}

RunsOf(d) == {r \in DOMAIN runs : runs[r].document_id = d}

\* threading.Thread(...).start() / background_tasks.add_task(...)
StartRun(d, case, by) ==
    LET r == Cardinality(DOMAIN runs) + 1
    IN  runs' = runs @@ (r :> [document_id |-> d, case_id |-> case, origin |-> by,
                               pc |-> "start", nchunks |-> 0, ids |-> <<>>,
                               indices |-> <<>>, err |-> 0])

\* no file is being taken in
IntakeIdle == file = None /\ row = None /\ stage = "idle"

\* no chunk_text call is observed
ChunkerIdle == chunk_call = None /\ chunk_ret = None

\* no PDF is being extracted
ExtractorIdle == pdf = None /\ processed = None /\ page_map = None

\* no EmbeddingService is observed
EmbedderIdle == embedder = None /\ embeddings = None /\ collection = None

\* nothing uploaded, nothing indexed
IngestIdle ==
    /\ documents = <<>>
    /\ nextDocId = 1
    /\ chunks = {}
    /\ nextChunkId = 1
    /\ vectors = {}
    /\ runs = <<>>
    /\ uploading = {}

Init ==
    /\ documents = <<>>
    /\ nextDocId = 1
    /\ chunks = {}
    /\ nextChunkId = 1
    /\ vectors = {}
    /\ runs = <<>>
    /\ uploading = {}
    /\ lastResult = NoResult
    /\ queries = <<>>
    /\ IntakeIdle
    /\ ChunkerIdle
    /\ before = None
    /\ ExtractorIdle
    /\ EmbedderIdle

\* ----------------------------------------------------------- upload_document
\* Lines 363-450: the record is committed with status "processing", then the
\* ingestion thread is started.  The file's content is drawn here.
Upload(case, content) ==
    /\ nextDocId <= MaxDocs
    /\ Cardinality(DOMAIN runs) < MaxRuns
    /\ LET d == nextDocId
       IN  /\ documents' = documents @@
                 (d :> [case_id |-> case, status |-> "processing",
                        error_message |-> None, file |-> TRUE,
                        content |-> content])
           /\ StartRun(d, case, "upload")
           /\ uploading' = uploading \cup {d}
    /\ nextDocId' = nextDocId + 1
    /\ UNCHANGED <<chunks, nextChunkId, vectors>>
    /\ lastResult' = NoResult
    /\ UNCHANGED auxVars

\* Lines 451-461: upload_document returns the document to the caller.
UploadReturn(d) ==
    /\ d \in uploading
    /\ uploading' = uploading \ {d}
    /\ UNCHANGED <<documents, nextDocId, chunks, nextChunkId,
                   vectors, runs>>
    /\ lastResult' = NoResult
    /\ UNCHANGED auxVars

\* ------------------------------------------------ process_document_background
MainPcs == {"extract", "embed", "persist", "vector_add", "attach", "finalize"}

SetPc(r, pc) == runs' = [runs EXCEPT ![r].pc = pc]

\* the finally block and return: the frame's locals are gone
Return(r) ==
    runs' = [runs EXCEPT ![r].pc = "done", ![r].nchunks = 0, ![r].ids = <<>>,
                         ![r].indices = <<>>, ![r].err = 0]

\* chunk["chunk_index"] of the chunks chunk_text emits for a file of n chunks
ChunkIndices(n) == [i \in 1..n |-> i - 1]

\* error_msg[:1000] if len(error_msg) > 1000 else error_msg
Truncate(len) == IF len > ErrMsgMax THEN ErrMsgMax ELSE len

\* Lines 87-120: open a session, load the document; return if it is gone,
\* otherwise write status "processing" and commit.
RunBegin(r) ==
    /\ r \in DOMAIN runs /\ runs[r].pc = "start"
    /\ LET d == runs[r].document_id
       IN  IF ~Exists(d)
           THEN /\ Return(r)
                /\ UNCHANGED documents
           ELSE /\ documents' = [documents EXCEPT ![d].status = "processing"]
                /\ SetPc(r, "thumbnail")
    /\ UNCHANGED <<nextDocId, chunks, nextChunkId, vectors,
                   uploading>>
    /\ lastResult' = NoResult
    /\ UNCHANGED auxVars

\* Lines 122-148: best-effort thumbnail; its result and every failure of it
\* leave the run and the modelled fields of the document as they are.
Thumbnail(r) ==
    /\ r \in DOMAIN runs /\ runs[r].pc = "thumbnail"
    /\ SetPc(r, "extract")
    /\ UNCHANGED <<documents, nextDocId, chunks, nextChunkId,
                   vectors, uploading>>
    /\ lastResult' = NoResult
    /\ UNCHANGED auxVars

\* Lines 150-205: the file exists, process_document returns and the extraction
\* results are committed on the document row.
Extract(r) ==
    /\ r \in DOMAIN runs /\ runs[r].pc = "extract"
    /\ LET d == runs[r].document_id
       IN  /\ Exists(d) /\ documents[d].file
           /\ runs' = [runs EXCEPT ![r].pc = "embed",
                                   ![r].nchunks = documents[d].content]
    /\ UNCHANGED <<documents, nextDocId, chunks, nextChunkId,
                   vectors, uploading>>
    /\ lastResult' = NoResult
    /\ UNCHANGED auxVars

\* Lines 213-241: chunk_text, then embed_texts returns one vector per chunk.
Embed(r) ==
    /\ r \in DOMAIN runs /\ runs[r].pc = "embed"
    /\ SetPc(r, "persist")
    /\ UNCHANGED <<documents, nextDocId, chunks, nextChunkId,
                   vectors, uploading>>
    /\ lastResult' = NoResult
    /\ UNCHANGED auxVars

\* Lines 243-277: one DocumentChunk row per chunk (flush assigns the id),
\* committed together; embedding_id is still null.
Persist(r) ==
    /\ r \in DOMAIN runs /\ runs[r].pc = "persist"
    /\ LET d == runs[r].document_id
           n == runs[r].nchunks
           idx == ChunkIndices(n)
           ids == [i \in 1..n |-> nextChunkId + i - 1]
       IN  /\ Exists(d)
           /\ chunks' = chunks \cup
                 {[id |-> ids[i], document_id |-> d, chunk_index |-> idx[i],
                   embedding_id |-> None] : i \in 1..n}
           /\ nextChunkId' = nextChunkId + n
           /\ runs' = [runs EXCEPT ![r].pc = "vector_add", ![r].ids = ids,
                                   ![r].indices = idx]
    /\ UNCHANGED <<documents, nextDocId, vectors, uploading>>
    /\ lastResult' = NoResult
    /\ UNCHANGED auxVars

\* chunk_metadata_list of a run (lines 266-275)
ChunkMetadata(r, i) ==
    [chunk_id |-> runs[r].ids[i], document_id |-> runs[r].document_id,
     case_id |-> runs[r].case_id, chunk_index |-> runs[r].indices[i]]

\* VectorStore.add_documents: chroma add / pinecone upsert of the whole batch
\* under ids chunk_<chunk_id>; the weaviate branch stores nothing.
AddDocuments(entries, metadata) ==
    IF store_type = "weaviate"
    THEN entries
    ELSE entries \cup
           {[id |-> EmbeddingId(m.chunk_id), metadata |-> m] : m \in metadata}

\* Lines 279-282.
VectorAdd(r) ==
    /\ r \in DOMAIN runs /\ runs[r].pc = "vector_add"
    /\ vectors' = AddDocuments(vectors,
                     {ChunkMetadata(r, i) : i \in 1..Len(runs[r].ids)})
    /\ SetPc(r, "attach")
    /\ UNCHANGED <<documents, nextDocId, chunks, nextChunkId,
                   uploading>>
    /\ lastResult' = NoResult
    /\ UNCHANGED auxVars

\* Lines 284-290: embedding_id is written on every row that still exists.
Attach(r) ==
    /\ r \in DOMAIN runs /\ runs[r].pc = "attach"
    /\ LET mine == {runs[r].ids[i] : i \in 1..Len(runs[r].ids)}
       IN  chunks' = {IF c.id \in mine
                      THEN [c EXCEPT !.embedding_id = EmbeddingId(c.id)]
                      ELSE c : c \in chunks}
    /\ SetPc(r, "finalize")
    /\ UNCHANGED <<documents, nextDocId, nextChunkId, vectors,
                   uploading>>
    /\ lastResult' = NoResult
    /\ UNCHANGED auxVars

\* Lines 292-297: status "processed", error_message cleared, commit.
Finalize(r) ==
    /\ r \in DOMAIN runs /\ runs[r].pc = "finalize"
    /\ LET d == runs[r].document_id
       IN  /\ Exists(d)
           /\ documents' = [documents EXCEPT ![d].status = "processed",
                                             ![d].error_message = None]
    /\ Return(r)
    /\ UNCHANGED <<nextDocId, chunks, nextChunkId, vectors,
                   uploading>>
    /\ lastResult' = NoResult
    /\ UNCHANGED auxVars

\* Line 301, reached from lines 87-119: SessionLocal(), the document lookup or
\* the first commit raises.  len is len(str(e)).
BeginRaises(r, len) ==
    /\ r \in DOMAIN runs /\ runs[r].pc = "start"
    /\ runs' = [runs EXCEPT ![r].pc = "failed_begin", ![r].err = len]
    /\ UNCHANGED <<documents, nextDocId, chunks, nextChunkId,
                   vectors, uploading>>
    /\ lastResult' = NoResult
    /\ UNCHANGED auxVars

\* Line 301, reached from lines 150-297: a call of the current step raises (a
\* missing file or document row, the extractor, the embedding provider, the
\* vector store or the database); nothing of the step is committed.
StepRaises(r, len) ==
    /\ r \in DOMAIN runs /\ runs[r].pc \in MainPcs
    /\ runs' = [runs EXCEPT ![r].pc = "failed", ![r].err = len]
    /\ UNCHANGED <<documents, nextDocId, chunks, nextChunkId,
                   vectors, uploading>>
    /\ lastResult' = NoResult
    /\ UNCHANGED auxVars

\* Lines 312-333: the handler re-reads the document and commits status
\* "error" with the truncated text; if the document is gone it only logs; if
\* its own database calls raise (dbOk = FALSE) that is logged and swallowed.
HandleError(r, dbOk) ==
    /\ r \in DOMAIN runs /\ runs[r].pc \in {"failed_begin", "failed"}
    /\ LET d == runs[r].document_id
       IN  IF dbOk /\ Exists(d)
           THEN documents' = [documents EXCEPT
                                 ![d].status = "error",
                                 ![d].error_message = <<Truncate(runs[r].err)>>]
           ELSE UNCHANGED documents
    /\ Return(r)
    /\ UNCHANGED <<nextDocId, chunks, nextChunkId, vectors,
                   uploading>>
    /\ lastResult' = NoResult
    /\ UNCHANGED auxVars

\* ------------------------------------------------------------- vector store
\* VectorStore.delete_documents(chunk_ids): chroma and pinecone delete the
\* ids; the weaviate branch does nothing.
DeleteDocuments(entries, chunk_ids) ==
    IF store_type = "weaviate"
    THEN entries
    ELSE {v \in entries : v.id \notin chunk_ids}

\* chunk_ids = [f"chunk_{chunk.id}" for chunk in document.chunks]
ChunkIdsOf(d) == {EmbeddingId(c.id) : c \in ChunksOf(d)}

\* ------------------------------------------------------- reprocess_document
\* Lines 571-623.  outcome "ok": everything returns; "vector_fail":
\* delete_documents raises, which lines 590-591 log and swallow; "db_fail":
\* the commit of line 609 raises and the request fails after the vector
\* delete, with no task queued.
ReprocessRequest(d, outcome) ==
    /\ Exists(d) /\ documents[d].file
    /\ Cardinality(DOMAIN runs) < MaxRuns
    /\ outcome = "vector_fail" => ChunksOf(d) # {} /\ store_type # "weaviate"
    /\ vectors' = IF outcome = "vector_fail"
                  THEN vectors
                  ELSE DeleteDocuments(vectors, ChunkIdsOf(d))
    /\ IF outcome = "db_fail"
       THEN UNCHANGED <<documents, chunks, runs>>
       ELSE /\ chunks' = chunks \ ChunksOf(d)
            /\ documents' = [documents EXCEPT ![d].status = "processing",
                                              ![d].error_message = None]
            /\ StartRun(d, documents[d].case_id, "reprocess")
    /\ UNCHANGED <<nextDocId, nextChunkId, uploading>>
    /\ lastResult' = NoResult

Reprocess(d, outcome) ==
    /\ ReprocessRequest(d, outcome)
    /\ UNCHANGED auxVars

\* --------------------------------------------------------- delete_document
\* Lines 536-560.  The file is removed first; "vector_fail" and "db_fail" end
\* the request with the document row still there.
Delete(d, outcome) ==
    /\ Exists(d)
    /\ outcome = "vector_fail" => ChunksOf(d) # {} /\ store_type # "weaviate"
    /\ vectors' = IF outcome = "vector_fail"
                  THEN vectors
                  ELSE DeleteDocuments(vectors, ChunkIdsOf(d))
    /\ IF outcome = "ok"
       THEN /\ documents' = [x \in DOMAIN documents \ {d} |-> documents[x]]
            /\ chunks' = chunks \ ChunksOf(d)
       ELSE /\ documents' = [documents EXCEPT ![d].file = FALSE]
            /\ UNCHANGED chunks
    /\ UNCHANGED <<nextDocId, nextChunkId, runs, uploading>>
    /\ lastResult' = NoResult
    /\ UNCHANGED auxVars

Outcomes == {"ok", "vector_fail", "db_fail"}

\* ------------------------------------------------------------- RAGService
\* sequences of n distinct elements of S
Arrangements(S, n) ==
    {s \in [1..n -> S] : \A i, j \in 1..n : i # j => s[i] # s[j]}

\* the filter dropped: every entry passes
FilterMetadataDropped(case) == CaseIds

\* filter_metadata = {"case_id": case_id} if settings.CASE_ISOLATION_ENABLED else None
FilterMetadata(case) == IF CASE_ISOLATION_ENABLED THEN {case} ELSE CaseIds

\* VectorStore.search: the top_k nearest entries that pass the filter, nearest
\* first (the embedding decides which and in which order); weaviate returns [].
Search(case, top_k) ==
    IF store_type = "weaviate"
    THEN {<<>>}
    ELSE LET matching == {v \in vectors : v.metadata.case_id \in FilterMetadata(case)}
         IN  Arrangements(matching, Min(top_k, Cardinality(matching)))

\* Python's s[:k]: the first k items, all of s when k >= len(s), and for a
\* negative k all but the last -k items.
Take(s, k) ==
    LET n == IF k >= 0 THEN Min(k, Len(s))
             ELSE IF Len(s) + k > 0 THEN Len(s) + k ELSE 0
    IN  [i \in 1..n |-> s[i]]

\* "..."
ELLIPSIS == <<46, 46, 46>>

\* chunk.get("content", "")
Content(chunk) == IF "content" \in DOMAIN chunk THEN chunk.content ELSE <<>>

\* the excerpt without its cap
QuotedTextUncapped(content) == content

\* content[:200] + "..." if len(content) > 200 else content
QuotedText(content) ==
    IF Len(content) > QUOTE_MAX
    THEN Take(content, QUOTE_MAX) \o ELLIPSIS
    ELSE content

\* _generate_grounded_answer: one citation per chunk of retrieved_chunks[:max_citations]
Citations(retrieved, max_citations) ==
    LET cited == Take(retrieved, max_citations)
    IN  [i \in 1..Len(cited) |->
            [document_id |-> cited[i].metadata.document_id,
             chunk_id |-> cited[i].metadata.chunk_id,
             quoted_text |-> QuotedText(Content(cited[i]))]]

\* RAGService.query, lines 61-95.
Query(case, top_k, max_citations) ==
    /\ \E retrieved \in Search(case, top_k) :
          lastResult' =
             [kind |-> IF retrieved = <<>> THEN "refusal" ELSE "answer",
              case_id |-> case,
              citations |-> Take(Citations(retrieved, max_citations),
                                 max_citations),
              retrieved_chunks |-> retrieved]
    /\ UNCHANGED <<documents, nextDocId, chunks, nextChunkId,
                   vectors, runs, uploading>>
    /\ UNCHANGED auxVars

Next ==
    \/ \E case \in CaseIds, content \in 0..MaxChunks : Upload(case, content)
    \/ \E d \in DocIds : UploadReturn(d)
    \/ \E r \in RunIds : RunBegin(r)
    \/ \E r \in RunIds : Thumbnail(r)
    \/ \E r \in RunIds : Extract(r)
    \/ \E r \in RunIds : Embed(r)
    \/ \E r \in RunIds : Persist(r)
    \/ \E r \in RunIds : VectorAdd(r)
    \/ \E r \in RunIds : Attach(r)
    \/ \E r \in RunIds : Finalize(r)
    \/ \E r \in RunIds, len \in ErrLens : BeginRaises(r, len)
    \/ \E r \in RunIds, len \in ErrLens : StepRaises(r, len)
    \/ \E r \in RunIds, dbOk \in BOOLEAN : HandleError(r, dbOk)
    \/ \E d \in DocIds, outcome \in Outcomes : Reprocess(d, outcome)
    \/ \E d \in DocIds, outcome \in Outcomes : Delete(d, outcome)
    \/ \E case \in CaseIds, top_k \in 1..MaxTopK, max_citations \in 1..MaxTopK :
          Query(case, top_k, max_citations)

Spec == Init /\ [][Next]_vars

\* ============================================================ query engine
\* create_query and RAGService.query over a populated index.  The index is
\* drawn from IndexPool: entries ingestion has written, with their text and
\* their similarity to the question (score, in hundredths).

\* the refusal sentence of rag_service.py:74
REFUSAL_TEXT ==
    "The provided documents do not contain sufficient information to answer this question."

\* the text _generate_openai / _generate_anthropic return when the call raises
ERROR_TEXT == "Error generating response. Please try again."

\* the head of the no-provider answer of rag_service.py:158
FALLBACK_TEXT == "Based on the retrieved documents:"

\* texts the generation provider can return: the refusal sentence verbatim
\* (rule 2 of the prompt) or an answer of its own
LlmTexts == {REFUSAL_TEXT, "generated"}

\* self._llm_client after _initialize_llm
LlmClients == {"openai", "anthropic", "none"}

\* QueryRequest.max_citations: an int with no bound
CitationLimits == -1..MaxTopK

\* a text of n characters, as character codes
ContentOf(n) == [j \in 1..n |-> 97 + (j % 26)]

LenOf(i) == <<QUOTE_MAX + 1, QUOTE_MAX, 0, 1>>[((i - 1) % 4) + 1]

ScoreOf(i) == <<90, 40, 0>>[((i - 1) % 3) + 1]

CaseOf(i) == IF i = 4 THEN 2 ELSE 1

\* the entry add_documents writes for chunk i (text, metadata) together with
\* the score search reports for it
Entry(i) ==
    [id |-> EmbeddingId(i), content |-> ContentOf(LenOf(i)), score |-> ScoreOf(i),
     metadata |-> [chunk_id |-> i, document_id |-> CaseOf(i),
                   case_id |-> CaseOf(i), chunk_index |-> i - 1]]

IndexPool == {Entry(i) : i \in 1..MaxEntries}

QInit ==
    /\ documents = <<>>
    /\ nextDocId = 1
    /\ chunks = {}
    /\ nextChunkId = 1
    /\ vectors \in SUBSET IndexPool
    /\ runs = <<>>
    /\ uploading = {}
    /\ lastResult = NoResult
    /\ queries = <<>>
    /\ IntakeIdle
    /\ ChunkerIdle
    /\ before = None
    /\ ExtractorIdle
    /\ EmbedderIdle

\* context_parts: the sources of the prompt, "[Source i+1 ...]" for the i-th
\* chunk of retrieved_chunks[:max_citations]
Sources(retrieved, max_citations) ==
    LET cited == Take(retrieved, max_citations)
    IN  [i \in 1..Len(cited) |->
            [label |-> i, chunk_id |-> cited[i].metadata.chunk_id]]

\* scores = [chunk.get("score", 0.0) for chunk in retrieved_chunks if chunk.get("score")]
Scores(retrieved) ==
    SelectSeq([i \in 1..Len(retrieved) |-> retrieved[i].score], LAMBDA x : x # 0)

RECURSIVE Sum(_)
Sum(s) == IF s = <<>> THEN 0 ELSE Head(s) + Sum(Tail(s))

RECURSIVE Max(_)
Max(s) == IF Len(s) = 1 THEN Head(s)
          ELSE LET m == Max(Tail(s)) IN IF Head(s) > m THEN Head(s) ELSE m

\* _calculate_confidence; overall is the quotient <<sum, count>>
CalculateConfidence(retrieved) ==
    IF retrieved = <<>>
    THEN [overall |-> <<0, 1>>, top_score |-> 0]
    ELSE IF Scores(retrieved) = <<>>
    THEN [overall |-> <<50, 1>>, top_score |-> 50]
    ELSE [overall |-> <<Sum(Scores(retrieved)), Len(Scores(retrieved))>>,
          top_score |-> Max(Scores(retrieved)),
          num_sources |-> Len(retrieved)]

\* _generate_grounded_answer's answer: the provider's text, the fixed error
\* text when the provider call raises, or the context itself with no provider
GroundedAnswer(retrieved, max_citations, llm, text, llmRaises) ==
    IF llm = "none"
    THEN [text |-> FALLBACK_TEXT, context |-> Sources(retrieved, max_citations)]
    ELSE IF llmRaises
    THEN [text |-> ERROR_TEXT, context |-> <<>>]
    ELSE [text |-> text, context |-> <<>>]

\* the query without the early return of lines 72-78
RagQueryUnguarded(case, retrieved, max_citations, llm, text, llmRaises) ==
    [kind |-> "answer", case_id |-> case, max_citations |-> max_citations,
     answer |-> GroundedAnswer(retrieved, max_citations, llm, text, llmRaises),
     citations |-> Take(Citations(retrieved, max_citations), max_citations),
     confidence_score |-> CalculateConfidence(retrieved),
     retrieved_chunks |-> retrieved,
     sources |-> Sources(retrieved, max_citations),
     llm_invoked |-> (llm # "none"),
     raised |-> IF llm # "none" /\ llmRaises THEN "llm" ELSE "none"]

\* RAGService.query after the search returned (lines 72-95)
RagQuery(case, retrieved, max_citations, llm, text, llmRaises) ==
    IF retrieved = <<>>
    THEN [kind |-> "refusal", case_id |-> case, max_citations |-> max_citations,
          answer |-> [text |-> REFUSAL_TEXT, context |-> <<>>],
          citations |-> <<>>, confidence_score |-> None,
          retrieved_chunks |-> <<>>, sources |-> <<>>, llm_invoked |-> FALSE,
          raised |-> "none"]
    ELSE [kind |-> "answer", case_id |-> case, max_citations |-> max_citations,
          answer |-> GroundedAnswer(retrieved, max_citations, llm, text, llmRaises),
          citations |-> Take(Citations(retrieved, max_citations), max_citations),
          confidence_score |-> CalculateConfidence(retrieved),
          retrieved_chunks |-> retrieved,
          sources |-> Sources(retrieved, max_citations),
          llm_invoked |-> (llm # "none"),
          raised |-> IF llm # "none" /\ llmRaises THEN "llm" ELSE "none"]

\* what the caller gets when the request ends in an unhandled exception
QueryError(case, max_citations, raised) ==
    [kind |-> "error", case_id |-> case, max_citations |-> max_citations,
     answer |-> [text |-> "", context |-> <<>>],
     citations |-> <<>>, confidence_score |-> None,
     retrieved_chunks |-> <<>>, sources |-> <<>>, llm_invoked |-> FALSE,
     raised |-> raised]

QueryOutcomes == {"ok", "embed_fail", "search_fail", "llm_fail", "db_fail"}

\* create_query, queries.py:48-85.  "embed_fail": embed_text raises;
\* "search_fail": the vector index cannot be reached and search raises;
\* "llm_fail": the generation provider call raises; "db_fail": the commit of
\* the Query row raises.  Only the first, second and last leave the handler
\* as an exception, whatever the query would have returned.  The committed
\* row is kept as case, answer and the cited chunk ids.
CreateQuery(case, max_citations, llm, text, outcome) ==
    /\ Len(queries) < MaxQueries
    /\ IF outcome \in {"embed_fail", "search_fail", "db_fail"}
       THEN /\ text = REFUSAL_TEXT /\ llm = "none"
            /\ lastResult' = QueryError(case, max_citations,
                                 CASE outcome = "embed_fail" -> "embed"
                                   [] outcome = "search_fail" -> "search"
                                   [] OTHER -> "db")
            /\ UNCHANGED queries
       ELSE \E retrieved \in Search(case, TOP_K) :
              LET result == RagQuery(case, retrieved, max_citations, llm, text,
                                     outcome = "llm_fail")
              IN  /\ outcome = "llm_fail" => result.llm_invoked
                  /\ ~result.llm_invoked \/ outcome = "llm_fail" => text = REFUSAL_TEXT
                  /\ lastResult' = result
                  /\ queries' = Append(queries,
                        [case_id |-> case, answer |-> result.answer,
                         citations |-> [i \in 1..Len(result.citations) |->
                                           result.citations[i].chunk_id]])
    /\ UNCHANGED <<documents, nextDocId, chunks, nextChunkId,
                   vectors, runs, uploading>>
    /\ UNCHANGED <<file, row, stage, chunk_call, chunk_ret, before>>
    /\ UNCHANGED <<pdf, processed, page_map, embedder, embeddings, collection>>

QNext ==
    \E case \in CaseIds, max_citations \in CitationLimits, llm \in LlmClients,
       text \in LlmTexts, outcome \in QueryOutcomes :
          CreateQuery(case, max_citations, llm, text, outcome)

QuerySpec == QInit /\ [][QNext]_vars

\* ============================================================ file intake
\* One file from the upload request to the end of its ingestion run, by
\* declared type: upload_document's extension check, the dispatch of
\* DocumentProcessor.process_document and the page_count of each handler.

\* settings.ALLOWED_EXTENSIONS
ALLOWED_EXTENSIONS ==
    {"pdf", "docx", "gdoc", "xlsx", "gsheet", "gslides", "pptx",
     "tiff", "tif", "msg", "eml", "xps", "odt", "ods", "epub", "csv",
     "txt", "jpg", "jpeg", "png", "gif", "bmp", "webp"}

\* the extensions a client can send: the allowed ones, one the processor
\* handles but upload refuses, one nobody knows
Extensions == ALLOWED_EXTENSIONS \cup {"doc", "exe"}

\* the if/elif chain of process_document: the handler of an extension
Handler(file_ext) ==
    CASE file_ext = "pdf" -> "pdf"
      [] file_ext \in {"docx", "doc"} -> "docx"
      [] file_ext = "txt" -> "txt"
      [] file_ext \in {"jpg", "jpeg", "png", "gif", "bmp", "webp", "tiff", "tif"} -> "image"
      [] file_ext \in {"xlsx", "csv", "msg", "eml", "pptx", "odt", "ods", "epub", "xps"}
            -> file_ext
      [] OTHER -> "none"

\* word counts of the extracted text the files are drawn with
WordCounts == {0, WORDS_PER_PAGE - 1, WORDS_PER_PAGE, 2 * WORDS_PER_PAGE}

\* a file: declared type, number of units its container holds (pages of a
\* PDF, slides, e-book documents with text) and words of its text
Files == [file_ext : Extensions, units : 0..MaxUnits, words : WordCounts]

AtLeastOne(n) == IF n < 1 THEN 1 ELSE n

\* "page_count" of the dict each handler returns
PageCount(handler, f) ==
    CASE handler \in {"pdf", "pptx"} -> f.units
      [] handler = "image" -> 1
      [] handler = "epub" -> AtLeastOne(f.units)
      [] handler = "xps" -> IF f.words = 0 THEN 1
                            ELSE AtLeastOne(f.words \div WORDS_PER_PAGE)
      [] OTHER -> AtLeastOne(f.words \div WORDS_PER_PAGE)

XInit ==
    /\ IngestIdle
    /\ lastResult = NoResult
    /\ queries = <<>>
    /\ file \in Files
    /\ row = None
    /\ stage = "request"
    /\ ChunkerIdle
    /\ before = None
    /\ ExtractorIdle
    /\ EmbedderIdle

xframe == <<documents, nextDocId, chunks, nextChunkId, vectors, runs,
            uploading, lastResult, queries, chunk_call, chunk_ret, before,
            pdf, processed, page_map, embedder, embeddings, collection>>

\* upload_document, lines 368-450: 400 for an extension outside
\* ALLOWED_EXTENSIONS, otherwise the row is committed with status
\* "processing" and the ingestion thread started.
UploadFile ==
    /\ stage = "request"
    /\ IF file.file_ext \notin ALLOWED_EXTENSIONS
       THEN /\ stage' = "rejected"
            /\ UNCHANGED row
       ELSE /\ row' = <<[status |-> "processing", page_count |-> None]>>
            /\ stage' = "thumbnail"
    /\ UNCHANGED <<file, xframe>>

\* process_document_background, lines 122-148: step 0, best effort.
GenerateThumbnail ==
    /\ stage = "thumbnail"
    /\ stage' = "extract"
    /\ UNCHANGED <<file, row, xframe>>

\* Lines 177-205: process_document raises ValueError for an extension with no
\* handler and whatever the handler raises on a file it cannot read (ok =
\* FALSE); otherwise the handler's page_count is committed on the row.
ProcessDocument(ok) ==
    /\ stage = "extract"
    /\ LET handler == Handler(file.file_ext)
       IN  /\ handler = "none" => ok
           /\ IF handler = "none" \/ ~ok
              THEN /\ stage' = "failed"
                   /\ UNCHANGED row
              ELSE /\ row' = <<[row[1] EXCEPT !.page_count =
                                   <<PageCount(handler, file)>>]>>
                   /\ stage' = "index"
    /\ UNCHANGED <<file, xframe>>

\* Lines 213-297: chunking, embedding, persisting and indexing return and
\* status "processed" is committed, or one of them raises.
IndexAndFinalize(ok) ==
    /\ stage = "index"
    /\ IF ok
       THEN /\ row' = <<[row[1] EXCEPT !.status = "processed"]>>
            /\ stage' = "done"
       ELSE /\ stage' = "failed"
            /\ UNCHANGED row
    /\ UNCHANGED <<file, xframe>>

\* Lines 301-331: the handler commits status "error".
RecordFailure ==
    /\ stage = "failed"
    /\ row' = <<[row[1] EXCEPT !.status = "error"]>>
    /\ stage' = "done"
    /\ UNCHANGED <<file, xframe>>

XNext ==
    \/ UploadFile
    \/ GenerateThumbnail
    \/ \E ok \in BOOLEAN : ProcessDocument(ok)
    \/ \E ok \in BOOLEAN : IndexAndFinalize(ok)
    \/ RecordFailure

IntakeSpec == XInit /\ [][XNext]_vars

\* ================================================================ chunker
\* DocumentProcessor.chunk_text on texts of up to MaxLen characters.  A text
\* is a sequence of characters; offsets are 0-based as in Python.

Chars == {"a", "b", "\n"}

Texts == UNION {[1..n -> Chars] : n \in 0..MaxLen}

\* "\n\n"
NL2 == <<"\n", "\n">>

IsSpace(c) == c \in {" ", "\n", "\t", "\r"}

\* Python's s[a:b] for 0 <= a
Slice(s, a, b) == SubSeq(s, a + 1, Min(b, Len(s)))

\* Python's s[-k:] for k > 0
Suffix(s, k) == IF k >= Len(s) THEN s ELSE SubSeq(s, Len(s) - k + 1, Len(s))

RECURSIVE LStrip(_)
LStrip(s) == IF s # <<>> /\ IsSpace(Head(s)) THEN LStrip(Tail(s)) ELSE s

RECURSIVE RStrip(_)
RStrip(s) == IF s # <<>> /\ IsSpace(s[Len(s)])
             THEN RStrip(SubSeq(s, 1, Len(s) - 1)) ELSE s

\* str.strip()
Strip(s) == RStrip(LStrip(s))

\* str.split('\n\n'): the pieces between the separators, taken leftmost
\* first
RECURSIVE Split(_)
Split(s) ==
    LET seps == {i \in 1..(Len(s) - 1) : s[i] = "\n" /\ s[i + 1] = "\n"}
    IN  IF seps = {} THEN <<s>>
        ELSE LET first == CHOOSE i \in seps : \A j \in seps : i <= j
             IN  <<SubSeq(s, 1, first - 1)>>
                 \o Split(SubSeq(s, first + 2, Len(s)))

\* find_page_number: the page whose [start, end) holds char_pos, the last
\* page past its end, else None
FindPageNumber(page_mapping, char_pos) ==
    IF page_mapping = <<>> THEN None
    ELSE LET hits == {i \in 1..Len(page_mapping) :
                         /\ page_mapping[i].start <= char_pos
                         /\ char_pos < page_mapping[i].end}
         IN  IF hits # {}
             THEN <<page_mapping[CHOOSE i \in hits : \A j \in hits : i <= j].page>>
             ELSE IF char_pos >= page_mapping[Len(page_mapping)].end
             THEN <<page_mapping[Len(page_mapping)].page>>
             ELSE None

\* a chunk whose span ends where it starts
ChunkEmptySpan(buffer, start, end, index, page_mapping) ==
    [content |-> Strip(buffer), start_char |-> start, end_char |-> start,
     chunk_index |-> index, page_number |-> FindPageNumber(page_mapping, start)]

\* the dict appended to chunks
Chunk(buffer, start, end, index, page_mapping) ==
    [content |-> Strip(buffer), start_char |-> start, end_char |-> end,
     chunk_index |-> index, page_number |-> FindPageNumber(page_mapping, start)]

\* sum(len(c["content"]) for c in chunks)
RECURSIVE ContentLength(_)
ContentLength(cs) ==
    IF cs = <<>> THEN 0 ELSE Len(Head(cs).content) + ContentLength(Tail(cs))

\* a new buffer that carries no paragraph
NewBufferWithoutParagraph(current_chunk, para, chunk_overlap) ==
    Suffix(current_chunk, chunk_overlap)

\* lines 602-603: overlap_text + "\n\n" + para
NewBuffer(current_chunk, para, chunk_overlap) ==
    Suffix(current_chunk, chunk_overlap) \o NL2 \o para

\* a seal test that forgets the separator's two characters
MustSealIgnoringSeparator(current_chunk, para, chunk_size) ==
    current_chunk # <<>> /\ Len(current_chunk) + Len(para) > chunk_size

\* line 589: current_chunk and len(current_chunk) + len(para) + 2 > chunk_size
MustSeal(current_chunk, para, chunk_size) ==
    current_chunk # <<>> /\ Len(current_chunk) + Len(para) + 2 > chunk_size

\* one iteration of the loop of lines 583-617 on the loop state st
ParagraphStep(st, raw, text, chunk_size, chunk_overlap, page_mapping) ==
    LET para == Strip(raw)
        cur == st.current_chunk
    IN  IF para = <<>> THEN st
        ELSE IF MustSeal(cur, para, chunk_size)
        THEN LET sealed == Append(st.chunks,
                              Chunk(cur, st.current_start,
                                    st.current_start + Len(cur),
                                    st.chunk_index, page_mapping))
             IN  IF chunk_overlap > 0
                 THEN LET next == NewBuffer(cur, para, chunk_overlap)
                      IN  [chunks |-> sealed, current_chunk |-> next,
                           current_start |-> st.current_start + Len(next)
                               - Len(Suffix(cur, chunk_overlap)) - Len(para) - 2,
                           chunk_index |-> st.chunk_index + 1]
                 ELSE [chunks |-> sealed, current_chunk |-> para,
                       current_start |-> Len(text)
                           - Len(Slice(text, st.current_start, Len(text))),
                       chunk_index |-> st.chunk_index + 1]
        ELSE IF cur # <<>>
        THEN [st EXCEPT !.current_chunk = cur \o NL2 \o para]
        ELSE [st EXCEPT !.current_chunk = para,
                        !.current_start = IF st.chunks = <<>> THEN 0
                                          ELSE ContentLength(st.chunks)]

RECURSIVE ParagraphLoop(_, _, _, _, _, _)
ParagraphLoop(st, paragraphs, text, chunk_size, chunk_overlap, page_mapping) ==
    IF paragraphs = <<>> THEN st
    ELSE ParagraphLoop(ParagraphStep(st, Head(paragraphs), text, chunk_size,
                                     chunk_overlap, page_mapping),
                       Tail(paragraphs), text, chunk_size, chunk_overlap,
                       page_mapping)

\* lines 576-628: paragraph-preserving mode
ChunkParagraphs(text, chunk_size, chunk_overlap, page_mapping) ==
    LET st == ParagraphLoop([chunks |-> <<>>, current_chunk |-> <<>>,
                             current_start |-> 0, chunk_index |-> 0],
                            Split(text), text, chunk_size, chunk_overlap,
                            page_mapping)
    IN  IF st.current_chunk # <<>>
        THEN Append(st.chunks,
                    Chunk(st.current_chunk, st.current_start,
                          st.current_start + Len(st.current_chunk),
                          st.chunk_index, page_mapping))
        ELSE st.chunks

\* lines 631-640 from offset i on, step > 0
RECURSIVE Windows(_, _, _, _, _, _)
Windows(text, i, chunk_size, step, page_mapping, acc) ==
    IF i >= Len(text) THEN acc
    ELSE LET window == Slice(text, i, i + chunk_size)
         IN  Windows(text, i + step, chunk_size, step, page_mapping,
                     Append(acc, Chunk(window, i,
                                       Min(i + Len(window), Len(text)),
                                       Len(acc), page_mapping)))

\* chunk_text: what the call returns, or that range() raised on a zero step
ChunkText(text, size_arg, overlap_arg, preserve_paragraphs, page_mapping) ==
    LET chunk_size == IF size_arg = 0 THEN CHUNK_SIZE ELSE size_arg
        chunk_overlap == IF overlap_arg = 0 THEN CHUNK_OVERLAP ELSE overlap_arg
    IN  IF preserve_paragraphs
        THEN [raised |-> FALSE,
              chunks |-> ChunkParagraphs(text, chunk_size, chunk_overlap,
                                         page_mapping)]
        ELSE IF chunk_size - chunk_overlap = 0
        THEN [raised |-> TRUE, chunks |-> <<>>]
        ELSE IF chunk_size - chunk_overlap < 0
        THEN [raised |-> FALSE, chunks |-> <<>>]
        ELSE [raised |-> FALSE,
              chunks |-> Windows(text, 0, chunk_size,
                                 chunk_size - chunk_overlap, page_mapping, <<>>)]

\* the calls observed: every text, every chunk_size and chunk_overlap up to
\* MaxSize (0 stands for an argument left out), both modes, no page mapping
ChunkCalls ==
    [text : Texts, chunk_size : 0..MaxSize, chunk_overlap : 0..MaxSize,
     preserve_paragraphs : BOOLEAN]

CInit ==
    /\ IngestIdle
    /\ lastResult = NoResult
    /\ queries = <<>>
    /\ IntakeIdle
    /\ chunk_call \in {<<c>> : c \in ChunkCalls}
    /\ chunk_ret = None
    /\ before = None
    /\ ExtractorIdle
    /\ EmbedderIdle

ChunkTextCall ==
    /\ chunk_ret = None
    /\ chunk_ret' = <<ChunkText(chunk_call[1].text, chunk_call[1].chunk_size,
                                chunk_call[1].chunk_overlap,
                                chunk_call[1].preserve_paragraphs, <<>>)>>
    /\ UNCHANGED <<documents, nextDocId, chunks, nextChunkId, vectors, runs,
                   uploading, lastResult, queries, file, row, stage,
                   chunk_call, before>>
    /\ UNCHANGED <<pdf, processed, page_map, embedder, embeddings, collection>>

CNext == ChunkTextCall

ChunkSpec == CInit /\ [][CNext]_vars

\* ========================================================= PDF extraction
\* One PDF from DocumentProcessor._process_pdf to the chunks of its ingestion
\* run: per-page OCR fallback, the OCR flags committed on the Document row,
\* the page mapping and the chunk_text call that uses it.

\* line 106: a page with fewer characters is taken for scanned
OCR_MIN_CHARS == 50

Repeat(c, n) == [j \in 1..n |-> c]

\* doc.page_content.strip() of the pages the files are drawn with: empty,
\* short, one character under the threshold, at the threshold, and two
\* paragraphs
PageTexts ==
    {<<>>, Repeat("d", 10), Repeat("d", OCR_MIN_CHARS - 1),
     Repeat("c", OCR_MIN_CHARS),
     Repeat("a", 25) \o NL2 \o Repeat("b", 25)}

\* a page as the loader and the OCR tools will treat it: its text layer,
\* what convert_from_path does ("image": returns the page image, "none":
\* returns an empty list, "raise") and what easyocr's readtext does ("text":
\* finds text, "nothing": finds none, "raise")
PdfPages ==
    {p \in [content : PageTexts, convert : {"image", "none", "raise"},
            ocr : {"text", "nothing", "raise"}] :
        /\ Len(p.content) >= OCR_MIN_CHARS => p.convert = "image"
        /\ (Len(p.content) >= OCR_MIN_CHARS \/ p.convert # "image")
              => p.ocr = "text"}

\* settings.CHUNK_SIZE and settings.CHUNK_OVERLAP of the deployment: the
\* defaults, and an environment that sets them small
ChunkSettings ==
    {[chunk_size |-> CHUNK_SIZE, chunk_overlap |-> CHUNK_OVERLAP],
     [chunk_size |-> 30, chunk_overlap |-> 5]}

PdfFiles ==
    [pages : UNION {[1..n -> PdfPages] : n \in 0..MaxPages},
     settings : ChunkSettings]

\* _ocr_image, lines 202-220: the text found, "" when readtext raises
OcrImage(ocr) == IF ocr = "text" THEN Repeat("e", 12) ELSE <<>>

\* lines 102-129: the entry of pages for page i
ProcessPage(i, p) ==
    IF Len(p.content) < OCR_MIN_CHARS
    THEN IF p.convert = "image"
         THEN [page_number |-> i, text |-> OcrImage(p.ocr), method |-> "ocr"]
         ELSE [page_number |-> i, text |-> p.content, method |-> "ocr_needed"]
    ELSE [page_number |-> i, text |-> p.content, method |-> "extraction"]

\* line 130: full_text += page_text + "\n\n"
RECURSIVE FullText(_)
FullText(pages) ==
    IF pages = <<>> THEN <<>>
    ELSE Head(pages).text \o NL2 \o FullText(Tail(pages))

\* _process_pdf, lines 91-141
ProcessPdf(f) ==
    LET pages == [i \in 1..Len(f) |-> ProcessPage(i, f[i])]
    IN  [text |-> Strip(FullText(pages)),
         page_count |-> Len(pages),
         requires_ocr |-> \E i \in 1..Len(f) : Len(f[i].content) < OCR_MIN_CHARS,
         pages |-> pages]

\* documents.py lines 194-196
OcrCompleted(result) ==
    \/ ~result.requires_ocr
    \/ \A i \in 1..Len(result.pages) : result.pages[i].method = "ocr"

\* documents.py lines 216-231, from offset current_char on
RECURSIVE PageMapping(_, _)
PageMapping(pages, current_char) ==
    IF pages = <<>> THEN <<>>
    ELSE LET page_end == current_char + Len(Head(pages).text)
         IN  <<[page |-> Head(pages).page_number, start |-> current_char,
                end |-> page_end]>>
             \o PageMapping(Tail(pages), page_end + 2)

PInit ==
    /\ IngestIdle
    /\ lastResult = NoResult
    /\ queries = <<>>
    /\ file = None
    /\ row = None
    /\ stage = "extract"
    /\ ChunkerIdle
    /\ before = None
    /\ pdf \in {<<f>> : f \in PdfFiles}
    /\ processed = None
    /\ page_map = None
    /\ EmbedderIdle

pframe == <<documents, nextDocId, chunks, nextChunkId, vectors, runs,
            uploading, lastResult, queries, file, before, pdf,
            embedder, embeddings, collection>>

\* documents.py line 177: processor.process_document(file_path, "pdf")
ExtractPdf ==
    /\ stage = "extract"
    /\ processed' = <<ProcessPdf(pdf[1].pages)>>
    /\ stage' = "update"
    /\ UNCHANGED <<row, page_map, chunk_call, chunk_ret, pframe>>

\* documents.py lines 189-205: the extraction results committed on the row
UpdateDocument ==
    /\ stage = "update"
    /\ row' = <<[status |-> "processing",
                 page_count |-> <<processed[1].page_count>>,
                 requires_ocr |-> processed[1].requires_ocr,
                 ocr_completed |-> OcrCompleted(processed[1])]>>
    /\ stage' = "mapping"
    /\ UNCHANGED <<processed, page_map, chunk_call, chunk_ret, pframe>>

\* documents.py lines 216-231
BuildPageMapping ==
    /\ stage = "mapping"
    /\ page_map' = <<PageMapping(processed[1].pages, 0)>>
    /\ stage' = "chunk"
    /\ UNCHANGED <<row, processed, chunk_call, chunk_ret, pframe>>

\* documents.py lines 233-236: chunk_text(text, page_mapping=...), the sizes
\* being those of the settings
ChunkPages ==
    /\ stage = "chunk"
    /\ chunk_call' = <<[text |-> processed[1].text,
                        chunk_size |-> pdf[1].settings.chunk_size,
                        chunk_overlap |-> pdf[1].settings.chunk_overlap,
                        preserve_paragraphs |-> TRUE]>>
    /\ chunk_ret' = <<ChunkText(processed[1].text,
                                pdf[1].settings.chunk_size,
                                pdf[1].settings.chunk_overlap,
                                TRUE, page_map[1])>>
    /\ stage' = "chunked"
    /\ UNCHANGED <<row, processed, page_map, pframe>>

PNext ==
    \/ ExtractPdf
    \/ UpdateDocument
    \/ BuildPageMapping
    \/ ChunkPages

PdfSpec == PInit /\ [][PNext]_vars

\* ============================================================== embeddings
\* One EmbeddingService instance and the collection its vectors go to, over
\* a bounded number of embed_texts calls.

\* embedding_service.py line 38: OpenAI ada-002
OPENAI_DIMENSION == 1536

\* embedding_service.py line 36: all-MiniLM-L6-v2
LOCAL_DIMENSION == 384

\* vector_store.py line 70: the index _init_pinecone creates
PINECONE_DIMENSION == 1536

\* settings.LLM_PROVIDER
Providers == {"openai", "anthropic"}

\* EmbeddingService.__init__ and _initialize, lines 18-38
NewEmbeddingService(llm_provider, has_key) ==
    LET provider == IF llm_provider = "openai" /\ ~has_key
                    THEN "sentence-transformers" ELSE llm_provider
    IN  IF provider # "openai" \/ ~has_key
        THEN [provider |-> provider, has_key |-> has_key, model |-> TRUE,
              embedding_dimension |-> LOCAL_DIMENSION]
        ELSE [provider |-> provider, has_key |-> has_key, model |-> FALSE,
              embedding_dimension |-> OPENAI_DIMENSION]

\* the collections a VectorStore instance can find or create: a chroma
\* collection got or created by name (empty, or persisted with the vectors of
\* an earlier configuration), the index _init_pinecone creates
Collections ==
    {[store_type |-> "chroma", dimension |-> dim, written |-> <<>>, rejected |-> 0]
        : dim \in {None, <<LOCAL_DIMENSION>>, <<OPENAI_DIMENSION>>}}
    \cup {[store_type |-> "pinecone", dimension |-> <<PINECONE_DIMENSION>>,
           written |-> <<>>, rejected |-> 0]}

\* the dimension of the vectors embed_texts returns (lines 44-72): the hosted
\* model's when the provider is openai with a key and the call succeeds, the
\* local model's otherwise
ReturnedDimension(service, openai_ok) ==
    IF service.provider = "openai" /\ service.has_key /\ openai_ok
    THEN OPENAI_DIMENSION
    ELSE LOCAL_DIMENSION

EInit ==
    /\ IngestIdle
    /\ lastResult = NoResult
    /\ queries = <<>>
    /\ IntakeIdle
    /\ ChunkerIdle
    /\ before = None
    /\ ExtractorIdle
    /\ embedder \in {<<NewEmbeddingService(p, k)>> : p \in Providers, k \in BOOLEAN}
    /\ embeddings = None
    /\ collection \in {<<c>> : c \in Collections}

eframe == <<documents, nextDocId, chunks, nextChunkId, vectors, runs,
            uploading, lastResult, queries, file, row, stage, chunk_call,
            chunk_ret, before, pdf, processed, page_map>>

\* embed_texts, lines 44-72; openai_ok = FALSE: openai.Embedding.create
\* raises and lines 59-64 fall back to the local model, loading it if needed
EmbedTexts(openai_ok) ==
    /\ embeddings = None
    /\ Len(collection[1].written) + collection[1].rejected < MaxCalls
    /\ ~openai_ok => embedder[1].provider = "openai" /\ embedder[1].has_key
    /\ embeddings' = <<[dimension |-> ReturnedDimension(embedder[1], openai_ok)]>>
    /\ embedder' = IF openai_ok THEN embedder
                   ELSE <<[embedder[1] EXCEPT !.model = TRUE]>>
    /\ UNCHANGED <<collection, eframe>>

\* add_documents, vector_store.py lines 98-136: collection.add / upsert of
\* the batch.  The store takes vectors of the collection's dimension (an
\* empty chroma collection takes that of its first batch) and raises on any
\* other.
AddEmbeddings ==
    /\ embeddings # None
    /\ LET c == collection[1]
           d == embeddings[1].dimension
       IN  collection' =
              IF c.dimension = None
              THEN <<[c EXCEPT !.dimension = <<d>>, !.written = Append(@, d)]>>
              ELSE IF c.dimension = <<d>>
              THEN <<[c EXCEPT !.written = Append(@, d)]>>
              ELSE <<[c EXCEPT !.rejected = @ + 1]>>
    /\ embeddings' = None
    /\ UNCHANGED <<embedder, eframe>>

ENext ==
    \/ \E openai_ok \in BOOLEAN : EmbedTexts(openai_ok)
    \/ AddEmbeddings

EmbedSpec == EInit /\ [][ENext]_vars

\* ============================================================= reprocess
\* Reprocess requests on one processed document whose earlier runs have
\* returned (their frames are gone).  The document starts with the chunk rows
\* and vector entries of one complete run or, as after an upload raced by a
\* reprocess request, of two; `before` records the rows each request finds.

\* how many rows of document d carry each chunk_index
RowsByIndex(d) ==
    [i \in 0..(MaxChunks - 1) |->
        Cardinality({c \in ChunksOf(d) : c.chunk_index = i})]

\* the rows and vector entries `copies` complete runs leave for a file of n
\* chunks, under ids 1..copies*n
RowsOfRuns(d, n, copies) ==
    {[id |-> (k - 1) * n + i, document_id |-> d, chunk_index |-> i - 1,
      embedding_id |-> EmbeddingId((k - 1) * n + i)] : k \in 1..copies, i \in 1..n}

EntriesOfRuns(d, case, n, copies) ==
    {[id |-> EmbeddingId((k - 1) * n + i),
      metadata |-> [chunk_id |-> (k - 1) * n + i, document_id |-> d,
                    case_id |-> case, chunk_index |-> i - 1]] :
        k \in 1..copies, i \in 1..n}

RInit ==
    \E case \in CaseIds, n \in 0..MaxChunks, copies \in 1..2 :
        /\ documents = (1 :> [case_id |-> case, status |-> "processed",
                              error_message |-> None, file |-> TRUE,
                              content |-> n])
        /\ nextDocId = 2
        /\ chunks = RowsOfRuns(1, n, copies)
        /\ nextChunkId = copies * n + 1
        /\ vectors = EntriesOfRuns(1, case, n, copies)
        /\ runs = <<>>
        /\ uploading = {}
        /\ lastResult = NoResult
        /\ queries = <<>>
        /\ IntakeIdle
        /\ ChunkerIdle
        /\ before = None
        /\ ExtractorIdle
        /\ EmbedderIdle

\* reprocess_document, with the rows it found recorded when it queues a run
ObservedReprocess(d, outcome) ==
    /\ ReprocessRequest(d, outcome)
    /\ before' = IF outcome = "db_fail" THEN before
                 ELSE <<[document_id |-> d, rows |-> RowsByIndex(d),
                         clean |-> (/\ documents[d].status = "processed"
                                    /\ \A r \in RunsOf(d) : runs[r].pc = "done")]>>
    /\ UNCHANGED <<queries, file, row, stage, chunk_call, chunk_ret>>
    /\ UNCHANGED <<pdf, processed, page_map, embedder, embeddings, collection>>

RNext ==
    \/ \E d \in DocIds, outcome \in Outcomes : ObservedReprocess(d, outcome)
    \/ \E r \in RunIds : RunBegin(r)
    \/ \E r \in RunIds : Thumbnail(r)
    \/ \E r \in RunIds : Extract(r)
    \/ \E r \in RunIds : Embed(r)
    \/ \E r \in RunIds : Persist(r)
    \/ \E r \in RunIds : VectorAdd(r)
    \/ \E r \in RunIds : Attach(r)
    \/ \E r \in RunIds : Finalize(r)
    \/ \E r \in RunIds, len \in ErrLens : BeginRaises(r, len)
    \/ \E r \in RunIds, len \in ErrLens : StepRaises(r, len)
    \/ \E r \in RunIds, dbOk \in BOOLEAN : HandleError(r, dbOk)

ReprocessSpec == RInit /\ [][RNext]_vars

\* ================================================================== claims

\* ingestion runs of document d that have begun and not yet returned
Running(d) == {r \in RunsOf(d) : runs[r].pc \notin {"start", "done"}}

\* no ingestion run of document d is queued or running
Quiescent(d) == \A r \in RunsOf(d) : runs[r].pc = "done"

\* C1: case isolation.  Every chunk a query scoped to a case retrieves, and
\* every citation it returns, comes from a vector entry whose metadata carries
\* that case, and no cited document_id is a document of another case.
C1_CaseIsolation ==
    lastResult.kind # "none" =>
        /\ \A i \in 1..Len(lastResult.retrieved_chunks) :
              lastResult.retrieved_chunks[i].metadata.case_id = lastResult.case_id
        /\ \A i \in 1..Len(lastResult.citations) :
              LET c == lastResult.citations[i]
              IN  /\ \E v \in vectors :
                        /\ v.id = EmbeddingId(c.chunk_id)
                        /\ v.metadata.document_id = c.document_id
                        /\ v.metadata.case_id = lastResult.case_id
                  /\ Exists(c.document_id) =>
                        documents[c.document_id].case_id = lastResult.case_id

\* C1 witness: a query returned a citation while the store also holds an entry
\* of the other case.
C1_Witness ==
    /\ lastResult.kind = "answer"
    /\ Len(lastResult.citations) > 0
    /\ \E v \in vectors : v.metadata.case_id # lastResult.case_id

AllowedEdges ==
    {<<"pending", "processing">>, <<"processing", "processed">>,
     <<"processing", "error">>, <<"processed", "processing">>,
     <<"error", "processing">>}

\* C2: the persisted status of a document changes only along the edges
\* pending->processing, processing->processed, processing->error,
\* processed->processing and error->processing; never error->processed or
\* processed->error.
C2_StatusEdges ==
    [][\A d \in DOMAIN documents \cap DOMAIN documents' :
          documents[d].status # documents'[d].status =>
             <<documents[d].status, documents'[d].status>> \in AllowedEdges]_vars

\* C3: at any time at most one ingestion run per document is between its
\* start and its final status write.
C3_SingleRunPerDocument ==
    \A d \in DocIds : Cardinality(Running(d)) <= 1

\* C4: with no ingestion run of the document in flight, the document has a
\* vector entry chunk_<k> if and only if it has a chunk row with id k.
C4_ChunkVectorCorrespondence ==
    \A d \in DocIds :
        Quiescent(d) => ChunkIdsOf(d) = {v.id : v \in VectorsOf(d)}

\* C5: with no ingestion run of the document in flight, the chunk_index values
\* of its chunk rows are pairwise distinct and are exactly 0..N-1 for N rows.
C5_ChunkIndexContiguous ==
    \A d \in DocIds :
        Quiescent(d) =>
            /\ {c.chunk_index : c \in ChunksOf(d)} = 0..(Cardinality(ChunksOf(d)) - 1)
            /\ \A c1, c2 \in ChunksOf(d) :
                  c1.chunk_index = c2.chunk_index => c1 = c2

\* C6: when a run whose step after the document lookup raised finishes its
\* error handling, the document (if it still exists) has status error and
\* error_message equal to the failure text truncated to 1000 characters.
C6_FailureRecorded ==
    [][\A r \in DOMAIN runs :
          (/\ runs[r].pc = "failed"
           /\ runs'[r].pc = "done"
           /\ runs[r].document_id \in DOMAIN documents') =>
             /\ documents'[runs[r].document_id].status = "error"
             /\ documents'[runs[r].document_id].error_message
                   = <<Truncate(runs[r].err)>>]_vars

\* a reprocess request for d queues its ingestion run in this step
ReprocessQueues(d) ==
    \E r \in DOMAIN runs' \ DOMAIN runs :
        runs'[r].document_id = d /\ runs'[r].origin = "reprocess"

\* C7: a reprocess request on a document in status processed or error, with
\* no run of it in flight, leaves the document with no chunk rows and no vector
\* entries, a null error_message and status processing when it queues the run.
C7_ReprocessPurges ==
    [][\A d \in DOMAIN documents :
          (/\ documents[d].status \in {"processed", "error"}
           /\ Quiescent(d)
           /\ ReprocessQueues(d)) =>
             /\ {c \in chunks' : c.document_id = d} = {}
             /\ {v \in vectors' : v.metadata.document_id = d} = {}
             /\ documents'[d].error_message = None
             /\ documents'[d].status = "processing"]_vars

\* C8: no query returns a retrieved chunk or citation of a document whose
\* status is error.
C8_ErrorExcludedFromRetrieval ==
    lastResult.kind = "answer" =>
        /\ \A i \in 1..Len(lastResult.retrieved_chunks) :
              LET d == lastResult.retrieved_chunks[i].metadata.document_id
              IN  Exists(d) => documents[d].status # "error"
        /\ \A i \in 1..Len(lastResult.citations) :
              LET d == lastResult.citations[i].document_id
              IN  Exists(d) => documents[d].status # "error"

\* C9: the upload call returns before extraction begins: while upload_document
\* has not returned, the run it started has not got past extraction.
C9_UploadReturnsBeforeExtraction ==
    \A r \in DOMAIN runs :
        (runs[r].origin = "upload" /\ runs[r].document_id \in uploading) =>
            runs[r].pc \notin {"embed", "persist", "vector_add", "attach", "finalize"}

\* C10: a run that began for an existing document returns with the document's
\* persisted status processed or error, never processing.
C10_RunEndsTerminal ==
    [][\A r \in DOMAIN runs :
          (/\ runs[r].pc \notin {"start", "done"}
           /\ runs'[r].pc = "done"
           /\ runs[r].document_id \in DOMAIN documents') =>
             documents'[runs[r].document_id].status \in {"processed", "error"}]_vars

\* the entries of the index a search scoped to the case can return
Matching(case) == {v \in vectors : v.metadata.case_id \in FilterMetadata(case)}

\* the request returned a result (it did not end in an exception)
Answered == lastResult.kind \in {"refusal", "answer"}

\* C11: when the vector search of a query returns zero entries, the result is
\* exactly the refusal sentence, an empty citations list and a null
\* confidence_score, and the generation provider was not invoked.
C11_EmptyRetrievalRefuses ==
    (Answered /\ Matching(lastResult.case_id) = {}) =>
        /\ lastResult.answer = [text |-> REFUSAL_TEXT, context |-> <<>>]
        /\ lastResult.citations = <<>>
        /\ lastResult.confidence_score = None
        /\ lastResult.retrieved_chunks = <<>>
        /\ ~lastResult.llm_invoked

\* C11 witness: a query of a case with no entry returned while the index holds
\* entries of the other case.
C11_Witness ==
    /\ Answered
    /\ Matching(lastResult.case_id) = {}
    /\ vectors # {}

\* C12: for a query that retrieved n >= 1 chunks, the citations are exactly
\* the first min(max_citations, n) retrieved chunks in retrieval order (none
\* when max_citations is negative), and citation i is the chunk labelled
\* [Source i] in the prompt.
C12_CitationsAreFirstRetrieved ==
    (Answered /\ Len(lastResult.retrieved_chunks) >= 1) =>
        /\ Len(lastResult.citations)
              = IF lastResult.max_citations < 0 THEN 0
                ELSE Min(lastResult.max_citations, Len(lastResult.retrieved_chunks))
        /\ \A i \in 1..Len(lastResult.citations) :
              /\ lastResult.citations[i].chunk_id
                    = lastResult.retrieved_chunks[i].metadata.chunk_id
              /\ lastResult.sources[i].label = i
              /\ lastResult.sources[i].chunk_id = lastResult.citations[i].chunk_id

\* C13: every citation's quoted_text is the chunk's whole content when that
\* has at most 200 characters, and otherwise its first 200 characters followed
\* by "..."; it is never longer than 203 characters.
C13_QuotedTextCapped ==
    Answered =>
        \A i \in 1..Len(lastResult.citations) :
            LET q == lastResult.citations[i].quoted_text
                content == (CHOOSE v \in vectors :
                               v.metadata.chunk_id = lastResult.citations[i].chunk_id).content
            IN  /\ Len(q) <= QUOTE_MAX + 3
                /\ IF Len(content) <= QUOTE_MAX
                   THEN q = content
                   ELSE q = SubSeq(content, 1, QUOTE_MAX) \o <<46, 46, 46>>

\* C13 witness: one result cites a chunk of more than 200 characters and a
\* chunk of exactly 200 characters.
C13_Witness ==
    /\ Answered
    /\ \E i, j \in 1..Len(lastResult.citations) :
          /\ Len(lastResult.retrieved_chunks[i].content) > QUOTE_MAX
          /\ Len(lastResult.retrieved_chunks[j].content) = QUOTE_MAX
          /\ Len(lastResult.citations[i].quoted_text) = QUOTE_MAX + 3
          /\ Len(lastResult.citations[j].quoted_text) = QUOTE_MAX

\* C14: a request in which the vector index cannot be reached or the
\* generation provider call fails ends in an error and commits no Query row.
C14_EngineFailureSurfaced ==
    [][(lastResult' # lastResult /\ lastResult'.raised \in {"search", "llm"}) =>
          /\ lastResult'.kind = "error"
          /\ queries' = queries]_vars

\* C15: a file whose declared type has no extraction handler is rejected
\* before any processing: it gets no Document row and neither the thumbnail
\* nor the extraction step runs for it.
C15_UnsupportedRejected ==
    (row # None \/ stage \in {"thumbnail", "extract"}) =>
        Handler(file.file_ext) # "none"

\* C19: every page_count a successful extraction returns and the run commits
\* is at least 1, whatever the handler, and so is the page_count of every
\* document in status processed.
C19_PageCountAtLeastOne ==
    (row # None /\ row[1].page_count # None) => row[1].page_count[1] >= 1

\* the chunk_text call observed and the chunks it returned
Call == chunk_call[1]
Returned == chunk_ret[1].chunks

\* C16: for every text and every chunk_overlap < chunk_size, in both modes,
\* every chunk chunk_text emits has 0 <= start_char < end_char <= len(text).
C16_ChunkSpansValid ==
    (chunk_ret # None /\ Call.chunk_overlap < Call.chunk_size) =>
        \A i \in 1..Len(Returned) :
            /\ 0 <= Returned[i].start_char
            /\ Returned[i].start_char < Returned[i].end_char
            /\ Returned[i].end_char <= Len(Call.text)

\* C16 witness: a paragraph-preserving call with chunk_overlap < chunk_size
\* returned three chunks.
C16_Witness ==
    /\ chunk_ret # None
    /\ Call.chunk_overlap < Call.chunk_size
    /\ Call.chunk_overlap > 0
    /\ Call.preserve_paragraphs
    /\ Len(Returned) >= 3

\* the non-empty paragraphs of a text, stripped, in order
Paragraphs(text) ==
    SelectSeq([i \in 1..Len(Split(text)) |-> Strip(Split(text)[i])],
              LAMBDA para : para # <<>>)

\* the overlap a paragraph-preserving call works with
OverlapOf(call) ==
    IF call.chunk_overlap = 0 THEN CHUNK_OVERLAP ELSE call.chunk_overlap

\* what the seed taken from the previous chunk looks like at the head of a
\* chunk's content: the previous content's last chunk_overlap characters,
\* without leading whitespace, and the paragraph separator
OverlapPrefix(previous, chunk_overlap) ==
    LStrip(Suffix(previous, chunk_overlap)) \o NL2

StartsWith(s, prefix) ==
    Len(prefix) <= Len(s) /\ SubSeq(s, 1, Len(prefix)) = prefix

\* the paragraphs of returned chunk i once its overlap prefix is removed; a
\* chunk that does not start with its prefix yields a marker no text contains
OwnParagraphs(i) ==
    IF i = 1 THEN Split(Returned[1].content)
    ELSE LET prefix == OverlapPrefix(Returned[i - 1].content, OverlapOf(Call))
             content == Returned[i].content
         IN  IF StartsWith(content, prefix)
             THEN Split(SubSeq(content, Len(prefix) + 1, Len(content)))
             ELSE <<<<"no overlap prefix">>>>

RECURSIVE RecoveredUpTo(_)
RecoveredUpTo(n) ==
    IF n = 0 THEN <<>> ELSE RecoveredUpTo(n - 1) \o OwnParagraphs(n)

\* C17: in paragraph-preserving mode, the chunks' contents in chunk_index
\* order, each after the first without the overlap prefix seeded from its
\* predecessor, are exactly the text's non-empty paragraphs in their original
\* order, each once and whole, also when a paragraph is longer than
\* chunk_size.
C17_ParagraphRoundTrip ==
    (chunk_ret # None /\ Call.preserve_paragraphs) =>
        RecoveredUpTo(Len(Returned)) = Paragraphs(Call.text)

\* C17 witness: a call returned several chunks, one paragraph being longer
\* than chunk_size, from a text with an empty paragraph.
C17_Witness ==
    /\ chunk_ret # None
    /\ Call.preserve_paragraphs
    /\ Call.chunk_size > 0
    /\ Len(Returned) >= 2
    /\ \E para \in {Paragraphs(Call.text)[i] : i \in 1..Len(Paragraphs(Call.text))} :
          Len(para) > Call.chunk_size
    /\ Len(Split(Call.text)) > Len(Paragraphs(Call.text))

\* C20: in paragraph-preserving mode on a text whose paragraphs are separated
\* by exactly one blank line and carry no surrounding whitespace, every chunk
\* has text[start_char:end_char] equal to its content.
C20_ExactOffsets ==
    (/\ chunk_ret # None
     /\ Call.preserve_paragraphs
     /\ 0 < Call.chunk_overlap /\ Call.chunk_overlap < Call.chunk_size
     /\ Len(Split(Call.text)) = Len(Paragraphs(Call.text))
     /\ \A i \in 1..Len(Split(Call.text)) :
           Split(Call.text)[i] = Strip(Split(Call.text)[i])) =>
        \A i \in 1..Len(Returned) :
            Slice(Call.text, Returned[i].start_char, Returned[i].end_char)
               = Returned[i].content

\* the chunk_size and chunk_overlap a call works with (lines 558-559)
SizeOf(call) == IF call.chunk_size = 0 THEN CHUNK_SIZE ELSE call.chunk_size

\* the seal-and-overlap rule read on its own: the contents emitted from the
\* stripped non-empty paragraphs paras, buffer being the chunk under
\* construction
RECURSIVE SealAndOverlap(_, _, _, _)
SealAndOverlap(buffer, paras, chunk_size, chunk_overlap) ==
    IF paras = <<>>
    THEN IF buffer = <<>> THEN <<>> ELSE <<Strip(buffer)>>
    ELSE IF buffer = <<>>
    THEN SealAndOverlap(Head(paras), Tail(paras), chunk_size, chunk_overlap)
    ELSE IF Len(buffer) + Len(Head(paras)) + 2 > chunk_size
    THEN <<Strip(buffer)>> \o
         SealAndOverlap(Suffix(buffer, chunk_overlap) \o NL2 \o Head(paras),
                        Tail(paras), chunk_size, chunk_overlap)
    ELSE SealAndOverlap(buffer \o NL2 \o Head(paras), Tail(paras),
                        chunk_size, chunk_overlap)

\* the contents of the returned chunks, in order
Contents == [i \in 1..Len(Returned) |-> Returned[i].content]

C23_OverlapRejected ==
    (chunk_ret # None /\ OverlapOf(Call) >= SizeOf(Call)) =>
        chunk_ret[1].raised

\* C24: in paragraph-preserving mode with chunk_overlap < chunk_size, a chunk
\* whose content is longer than chunk_size is a single paragraph of the text
\* that is itself longer than chunk_size.
C24_ChunkSizeIsMaximum ==
    (/\ chunk_ret # None
     /\ Call.preserve_paragraphs
     /\ OverlapOf(Call) < SizeOf(Call)) =>
        \A i \in 1..Len(Returned) :
            Len(Returned[i].content) > SizeOf(Call) =>
                \E k \in 1..Len(Paragraphs(Call.text)) :
                    Paragraphs(Call.text)[k] = Returned[i].content

\* the state an upload raced by a reprocess request ends in (reachable under
\* Spec): a processed document, no run in flight, the rows and entries of two
\* complete runs
RaceResidue ==
    \E d \in DOMAIN documents :
        /\ documents[d].status = "processed" /\ documents[d].file
        /\ Quiescent(d)
        /\ documents[d].content = 1
        /\ chunks = RowsOfRuns(d, 1, 2)
        /\ vectors = EntriesOfRuns(d, documents[d].case_id, 1, 2)

\* C18: a reprocess request on a document in status processed with no run in
\* flight, followed by a complete successful run, leaves the document with as
\* many chunk rows under each chunk_index as it had before the request.
C18_ReprocessIdempotent ==
    \A d \in DOMAIN documents :
        (/\ before # None
         /\ before[1].document_id = d
         /\ before[1].clean
         /\ documents[d].status = "processed"
         /\ Quiescent(d)) =>
            RowsByIndex(d) = before[1].rows

\* the pages of the PDF being extracted, as read and as returned
Read == pdf[1].pages
Pages == processed[1].pages

\* page i had to go through OCR
NeededOcr(i) == Len(Read[i].content) < OCR_MIN_CHARS

\* OCR of page i succeeded: the page image was produced and read
OcrSucceeded(i) == Read[i].convert = "image" /\ Read[i].ocr # "raise"

\* the span of mapping entry i holds page i's text
Aligned(i) ==
    Slice(processed[1].text, page_map[1][i].start, page_map[1][i].end)
        = Pages[i].text

\* the offsets at which content occurs in text
Occurrences(content, text) ==
    {p \in 0..(Len(text) - Len(content)) :
        Slice(text, p, p + Len(content)) = content}

\* C22: with an aligned page mapping, a chunk whose content occurs at one
\* place of the text, inside page k's span, is tagged with page k.
C22_PageOfContent ==
    (/\ stage = "chunked"
     /\ \A k \in 1..Len(page_map[1]) : Aligned(k)) =>
        \A i \in 1..Len(Returned), k \in 1..Len(page_map[1]) :
            LET at == Occurrences(Returned[i].content, processed[1].text)
            IN  (/\ Cardinality(at) = 1
                 /\ \A p \in at : /\ page_map[1][k].start <= p
                                  /\ p < page_map[1][k].end) =>
                    Returned[i].page_number = <<page_map[1][k].page>>

\* C25: the committed ocr_completed is true exactly when OCR was not
\* required or every page that needed OCR ended with method ocr.
C25_OcrCompleted ==
    row # None =>
        (row[1].ocr_completed <=>
            \/ ~row[1].requires_ocr
            \/ \A i \in 1..Len(Pages) : NeededOcr(i) => Pages[i].method = "ocr")

\* C26: only pages under the threshold go to OCR, the others keep method
\* extraction and their text; a page that went to OCR has method ocr exactly
\* when OCR succeeded and otherwise method ocr_needed and empty text, with
\* requires_ocr true.
C26_PerPageOcr ==
    processed # None =>
        \A i \in 1..Len(Pages) :
            IF NeededOcr(i)
            THEN /\ processed[1].requires_ocr
                 /\ Pages[i].method = IF OcrSucceeded(i) THEN "ocr"
                                      ELSE "ocr_needed"
                 /\ ~OcrSucceeded(i) => Pages[i].text = <<>>
            ELSE /\ Pages[i].method = "extraction"
                 /\ Pages[i].text = Read[i].content

\* C30: every span of the page mapping holds its page's text in the text
\* that is chunked, the spans are in increasing order and disjoint, and the
\* last span ends at len(text).
C30_PageMappingAligned ==
    page_map # None =>
        /\ \A i \in 1..Len(page_map[1]) :
              /\ Aligned(i)
              /\ page_map[1][i].start <= page_map[1][i].end
              /\ i > 1 => page_map[1][i - 1].end <= page_map[1][i].start
        /\ page_map[1] # <<>> =>
              page_map[1][Len(page_map[1])].end = Len(processed[1].text)

\* the scores of all retrieved chunks of the latest result
AllScores ==
    [i \in 1..Len(lastResult.retrieved_chunks) |->
        lastResult.retrieved_chunks[i].score]

\* C28: for a non-empty retrieval, overall is the mean of the scores of all
\* retrieved chunks, zeros included, top_score their maximum and num_sources
\* their number.
C28_ConfidenceFromScores ==
    (Answered /\ lastResult.retrieved_chunks # <<>>) =>
        LET c == lastResult.confidence_score
        IN  /\ DOMAIN c = {"overall", "top_score", "num_sources"}
            /\ c.overall[1] * Len(AllScores) = Sum(AllScores) * c.overall[2]
            /\ c.top_score = Max(AllScores)
            /\ c.num_sources = Len(AllScores)

\* C29: in every state where a document has status processed, its
\* error_message is null and every chunk row of it carries embedding_id
\* chunk_<id> with a vector entry of that id in the store.
C29_ProcessedIsIndexed ==
    \A d \in DOMAIN documents :
        documents[d].status = "processed" =>
            /\ documents[d].error_message = None
            /\ \A c \in ChunksOf(d) :
                  /\ c.embedding_id = EmbeddingId(c.id)
                  /\ \E v \in vectors : v.id = EmbeddingId(c.id)

\* C27: every vector an embed_texts call returns has the dimension the
\* instance declares, also when the hosted provider failed and the local
\* model was used.
C27_DeclaredDimension ==
    embeddings # None =>
        embeddings[1].dimension = embedder[1].embedding_dimension

====
